---- MODULE Spec2Model ----
(***************************************************************************)
(* Model of src/crawl_vitalki.py: the __main__ guard and the coroutine     *)
(* crawl_vitalik_blog (credential check, output directories, link          *)
(* discovery on the index page, and the per-article loop: fetch, raw       *)
(* snapshot, extraction parse, processed record, delay, error handler).    *)
(*                                                                         *)
(* Python values are records with a "type" field.  Strings that the code   *)
(* inspects (hrefs, the serialized extraction payload) are sequences of    *)
(* tokens, so that 'in', startswith, + and json.loads are computed.        *)
(* The clock is counted in whole seconds, which is what                    *)
(* strftime("%Y%m%d_%H%M%S") keeps of datetime.now().                      *)
(***************************************************************************)
EXTENDS Integers, Sequences, FiniteSets, TLC

VARIABLES
    pc,                 \* position in the program
    api_key,            \* os.getenv('OPENAI_API_KEY'): "" stands for unset/empty
    dirs,               \* output directories that exist
    initial_result,     \* CrawlResult of the index page
    article_urls,       \* list built by link discovery
    idx,                \* position of the for loop in article_urls (0: not started)
    result,             \* CrawlResult of the current article
    timestamp,          \* capture timestamp of the current article
    processed_content,  \* value parsed from result.extracted_content
    now,                \* wall clock, whole seconds
    raw_files,          \* raw_dir: timestamp -> content of raw_<timestamp>.json
    processed_files,    \* processed_dir: timestamp -> content of processed_<timestamp>.json
    history,            \* what crawler.arun did for each url so far (ghost)
    log                 \* the steps taken, in order (ghost)

vars == <<pc, api_key, dirs, initial_result, article_urls, idx, result, timestamp,
          processed_content, now, raw_files, processed_files, history, log>>

----------------------------------------------------------------------------
(* Bounds *)

MaxLinks == 2

(* Program constants *)

DelayMin == 2

\* Seconds by which the clock's second count moves during one crawler.arun:
\* none (the call returns within the second it started in) or some
FetchSecs == {0, 1}

----------------------------------------------------------------------------
(* Python values *)

None == [type |-> "NoneType"]
Str(s) == [type |-> "str", s |-> s]
Dict(d) == [type |-> "dict", d |-> d]
List(items) == [type |-> "list", items |-> items]

EmptyMap == [k \in {} |-> ""]

\* bool(v) for the values result.extracted_content takes
Truthy(v) == v.type = "str" /\ v.s # <<>>

\* d.get(key, default)
DictGet(d, key, default) == IF key \in DOMAIN d THEN d[key] ELSE default

\* mutant of DictUpdate: keys d already has are not overwritten (setdefault)
DictUpdate_KeepsExisting(d, u) ==
    [k \in (DOMAIN d) \cup (DOMAIN u) |-> IF k \in DOMAIN d THEN d[k] ELSE u[k]]

\* d.update(u): keys of u are set, all other keys of d are kept
DictUpdate(d, u) ==
    [k \in (DOMAIN d) \cup (DOMAIN u) |-> IF k \in DOMAIN u THEN u[k] ELSE d[k]]

----------------------------------------------------------------------------
(* json.loads on a token sequence *)

IsObjectText(s) ==
    /\ Len(s) >= 2
    /\ s[1] = "{"
    /\ s[Len(s)] = "}"
    /\ (Len(s) - 2) % 2 = 0

\* the object's members; of a repeated key the last one wins
ObjectOf(s) ==
    LET n == (Len(s) - 2) \div 2
        keys == {s[2 * j] : j \in 1..n}
        last(k) == CHOOSE j \in 1..n :
                      /\ s[2 * j] = k
                      /\ \A j2 \in 1..n : s[2 * j2] = k => j2 <= j
    IN  [k \in keys |-> s[2 * last(k) + 1]]

\* a list text holds nothing or one object
IsListText(s) ==
    /\ Len(s) >= 2
    /\ s[1] = "["
    /\ s[Len(s)] = "]"
    /\ \/ Len(s) = 2
       \/ IsObjectText(SubSeq(s, 2, Len(s) - 1))

\* whether json.loads returns (otherwise it raises JSONDecodeError)
JsonDecodes(s) == IsObjectText(s) \/ IsListText(s)

\* the value json.loads returns, for a text that decodes
json_loads(s) ==
    IF IsObjectText(s)
    THEN Dict(ObjectOf(s))
    ELSE IF Len(s) = 2
    THEN List(<<>>)
    ELSE List(<<Dict(ObjectOf(SubSeq(s, 2, Len(s) - 1)))>>)

----------------------------------------------------------------------------
(* What the external engines can hand back *)

BaseUrl == <<"http", "s://vitalik.eth.limo">>

\* hrefs of the index page's internal links
Hrefs ==
    { <<"/posts/", "a">>,
      <<"http", "s://vitalik.eth.limo", "/general/", "b">>,
      <<"/about">> }

LinkLists == UNION {[1..n -> Hrefs] : n \in 0..MaxLinks}

\* the other forms a href can take: '../posts/c', 'sub/posts/d' (relative,
\* not starting at the root) and '/about?/posts/a' (the section in the query)
OtherHrefs ==
    { <<"..", "/posts/", "c">>,
      <<"sub", "/posts/", "d">>,
      <<"/about", "?", "/posts/", "a">> }

AllLinkLists == UNION {[1..n -> Hrefs \cup OtherHrefs] : n \in 0..MaxLinks}

\* result.extracted_content of a successful fetch
ObjectText ==
    <<"{", "title", "T_llm", "url", "U_llm", "date_published", "D_llm", "summary", "S", "}">>
ListText == <<"[", "{", "title", "T_llm", "summary", "S", "}", "]">>
MalformedText == <<"{", "title">>

\* None: no extraction was made
Payloads == {None, Str(MalformedText), Str(ObjectText), Str(ListText)}

\* result.metadata of a successful fetch: a dict, with or without the two keys
FullMetadata == Dict([k \in {"title", "date"} |-> IF k = "title" THEN "T_meta" ELSE "D_meta"])

Metadatas == {Dict(EmptyMap), FullMetadata}

NoResult == [success |-> FALSE, extracted_content |-> None, metadata |-> None]

FailedResult == [success |-> FALSE, extracted_content |-> None, metadata |-> None]

NoInitialResult == [success |-> FALSE, links |-> <<>>]

NoFiles == [t \in {} |-> None]

\* results of a successful fetch: every payload beside full metadata, and
\* the payload that reaches lines 115-120 beside every metadata
OkResults ==
    {[success |-> TRUE, extracted_content |-> p, metadata |-> m] :
        p \in Payloads, m \in {FullMetadata}}
    \cup
    {[success |-> TRUE, extracted_content |-> p, metadata |-> m] :
        p \in {Str(ObjectText)}, m \in Metadatas}

----------------------------------------------------------------------------
(* Link discovery, lines 66-72 *)

Contains(href, token) == \E i \in 1..Len(href) : href[i] = token

StartsWithHttp(href) == Len(href) >= 1 /\ href[1] = "http"

Matches(href) == Contains(href, "/posts/") \/ Contains(href, "/general/")

FullUrl(href) == IF StartsWithHttp(href) THEN href ELSE BaseUrl \o href

\* a discovery that drops a href it has already taken
RECURSIVE CollectUrls_Deduplicates(_)
CollectUrls_Deduplicates(links) ==
    IF links = <<>>
    THEN <<>>
    ELSE LET n == Len(links)
             front == CollectUrls_Deduplicates(SubSeq(links, 1, n - 1))
         IN  IF Matches(links[n]) /\ ~Contains(front, FullUrl(links[n]))
             THEN Append(front, FullUrl(links[n]))
             ELSE front

RECURSIVE CollectUrls(_)
CollectUrls(links) ==
    IF links = <<>>
    THEN <<>>
    ELSE LET rest == CollectUrls(Tail(links))
         IN  IF Matches(Head(links))
             THEN <<FullUrl(Head(links))>> \o rest
             ELSE rest

----------------------------------------------------------------------------
\* a step of iteration i (0: outside the loop), taken at second "at"
Event(ev, i) == [ev |-> ev, i |-> i, at |-> now]

Init ==
    /\ pc = "start"
    /\ api_key \in {"", "sk"}
    /\ dirs \in SUBSET {"raw", "processed"}
    /\ initial_result = NoInitialResult
    /\ article_urls = <<>>
    /\ idx = 0
    /\ result = NoResult
    /\ timestamp = 0
    /\ processed_content = None
    /\ now = 0
    /\ raw_files = NoFiles
    /\ processed_files = NoFiles
    /\ history = <<>>
    /\ log = <<>>

----------------------------------------------------------------------------
(* __main__, lines 143-150 *)

\* the file is run as a script: the key is checked before asyncio.run
MainGuard ==
    /\ pc = "start"
    /\ pc' = IF api_key = "" THEN "exited_1" ELSE "crawl"
    /\ UNCHANGED <<api_key, dirs, initial_result, article_urls, idx, result,
                   timestamp, processed_content, now, raw_files, processed_files, history, log>>

\* the module is imported and the coroutine is awaited by the importer
DirectCall ==
    /\ pc = "start"
    /\ pc' = "crawl"
    /\ UNCHANGED <<api_key, dirs, initial_result, article_urls, idx, result,
                   timestamp, processed_content, now, raw_files, processed_files, history, log>>

\* mutant of CheckKey: the missing key is not noticed
CheckKey_NoCheck ==
    /\ pc = "crawl"
    /\ pc' = "mkdirs"
    /\ UNCHANGED <<api_key, dirs, initial_result, article_urls, idx, result,
                   timestamp, processed_content, now, raw_files, processed_files, history, log>>

(* crawl_vitalik_blog, lines 30-34 *)
CheckKey ==
    /\ pc = "crawl"
    /\ pc' = IF api_key = "" THEN "raised" ELSE "mkdirs"
    /\ UNCHANGED <<api_key, dirs, initial_result, article_urls, idx, result,
                   timestamp, processed_content, now, raw_files, processed_files, history, log>>

(* lines 36-41 (and the extraction strategy's construction, 43-57, which
   changes nothing): mkdir(parents=True, exist_ok=True) for both *)
\* a creation that makes the raw directory only
Mkdirs_CreatesRawOnly ==
    /\ pc = "mkdirs"
    /\ dirs' = dirs \cup {"raw"}
    /\ log' = Append(log, Event("mkdirs", 0))
    /\ pc' = "discover"
    /\ UNCHANGED <<api_key, initial_result, article_urls, idx, result,
                   timestamp, processed_content, now, raw_files, processed_files, history>>

Mkdirs ==
    /\ pc = "mkdirs"
    /\ dirs' = dirs \cup {"raw", "processed"}
    /\ log' = Append(log, Event("mkdirs", 0))
    /\ pc' = "discover"
    /\ UNCHANGED <<api_key, initial_result, article_urls, idx, result,
                   timestamp, processed_content, now, raw_files, processed_files, history>>

(* a mkdir raises (OSError): nothing catches it. With exist_ok=True the
   mkdir of a directory that is there returns normally, so only the making
   of a missing one can raise: of raw, or of processed after raw *)
MkdirsRaises ==
    /\ pc = "mkdirs"
    /\ \/ "raw" \notin dirs /\ dirs' = dirs
       \/ "processed" \notin dirs /\ dirs' = dirs \cup {"raw"}
    /\ log' = Append(log, Event("mkdirs_raised", 0))
    /\ pc' = "raised"
    /\ UNCHANGED <<api_key, initial_result, article_urls, idx, result,
                   timestamp, processed_content, now, raw_files, processed_files, history>>

(* lines 60-64: the index page is requested; the call returns a result,
   whose internal links are one of the given lists *)
DiscoverFrom(lists) ==
    /\ pc = "discover"
    /\ \/ \E links \in lists : initial_result' = [success |-> TRUE, links |-> links]
       \/ initial_result' = [success |-> FALSE, links |-> <<>>]
    /\ log' = Append(log, Event("discover", 0))
    /\ pc' = "collect"
    /\ UNCHANGED <<api_key, dirs, article_urls, idx, result,
                   timestamp, processed_content, now, raw_files, processed_files, history>>

Discover == DiscoverFrom(LinkLists)

\* the same with every form of href on the index page
DiscoverAnyHref == DiscoverFrom(AllLinkLists)

\* lines 60-64: the request (or starting the crawler) raises; not in any try
DiscoverRaises ==
    /\ pc = "discover"
    /\ log' = Append(log, Event("discover_raised", 0))
    /\ pc' = "raised"
    /\ UNCHANGED <<api_key, dirs, initial_result, article_urls, idx, result,
                   timestamp, processed_content, now, raw_files, processed_files, history>>

(* lines 66-74: initial_result.success is not looked at *)
CollectLinks ==
    /\ pc = "collect"
    /\ article_urls' = CollectUrls(initial_result.links)
    /\ log' = Append(log, Event("found", 0))
    /\ pc' = "loop"
    /\ UNCHANGED <<api_key, dirs, initial_result, idx, result,
                   timestamp, processed_content, now, raw_files, processed_files, history>>

----------------------------------------------------------------------------
(* The loop, lines 77-141 *)

\* line 77: the next url, or line 141 after the last one
ForNext ==
    /\ pc = "loop"
    /\ IF idx < Len(article_urls)
       THEN /\ idx' = idx + 1
            /\ pc' = "fetch"
            /\ log' = log
       ELSE /\ idx' = idx
            /\ pc' = "completed"
            /\ log' = Append(log, Event("completed", 0))
    /\ UNCHANGED <<api_key, dirs, initial_result, article_urls, result,
                   timestamp, processed_content, now, raw_files, processed_files, history>>

\* a fetch that also starts the request of the next url
Fetch_StartsNextToo ==
    /\ pc = "fetch"
    /\ \E r \in OkResults \cup {FailedResult}, d \in FetchSecs :
          /\ result' = r
          /\ now' = now + d
          /\ history' = Append(history,
                [outcome |-> IF r.success THEN "ok" ELSE "failed",
                 result |-> r, at |-> now + d])
    /\ log' = IF idx < Len(article_urls)
              THEN log \o <<Event("fetch", idx), Event("fetch", idx + 1)>>
              ELSE Append(log, Event("fetch", idx))
    /\ pc' = "check_success"
    /\ UNCHANGED <<api_key, dirs, initial_result, article_urls, idx,
                   timestamp, processed_content, raw_files, processed_files>>

\* line 87: crawler.arun returns a result after some time
Fetch ==
    /\ pc = "fetch"
    /\ \E r \in OkResults \cup {FailedResult}, d \in FetchSecs :
          /\ result' = r
          /\ now' = now + d
          /\ history' = Append(history,
                [outcome |-> IF r.success THEN "ok" ELSE "failed",
                 result |-> r, at |-> now + d])
    /\ log' = Append(log, Event("fetch", idx))
    /\ pc' = "check_success"
    /\ UNCHANGED <<api_key, dirs, initial_result, article_urls, idx,
                   timestamp, processed_content, raw_files, processed_files>>

\* line 87 raises: to the handler of line 135
FetchRaises ==
    /\ pc = "fetch"
    /\ \E d \in FetchSecs :
          /\ now' = now + d
          /\ history' = Append(history,
                [outcome |-> "raised", result |-> result, at |-> now + d])
    /\ log' = Append(log, Event("fetch", idx))
    /\ pc' = "except"
    /\ UNCHANGED <<api_key, dirs, initial_result, article_urls, idx, result,
                   timestamp, processed_content, raw_files, processed_files>>

\* mutant of CheckSuccess: result.success is not looked at
CheckSuccess_IgnoresFlag ==
    /\ pc = "check_success"
    /\ pc' = "raw_write"
    /\ timestamp' = now
    /\ UNCHANGED <<api_key, dirs, initial_result, article_urls, idx, result,
                   processed_content, now, raw_files, processed_files, history, log>>

\* lines 89-94: a reported failure is printed and the loop continues;
\* otherwise the timestamp is taken
CheckSuccess ==
    /\ pc = "check_success"
    /\ IF ~result.success
       THEN /\ pc' = "loop"
            /\ log' = Append(log, Event("skip", idx))
            /\ timestamp' = timestamp
       ELSE /\ pc' = "raw_write"
            /\ log' = log
            /\ timestamp' = now
    /\ UNCHANGED <<api_key, dirs, initial_result, article_urls, idx, result,
                   processed_content, now, raw_files, processed_files, history>>

\* lines 97-103
RawContent ==
    [url |-> article_urls[idx],
     html |-> article_urls[idx],
     markdown |-> article_urls[idx],
     metadata |-> result.metadata,
     crawl_date |-> timestamp]

\* open(name, 'w') and json.dump: the file is created or replaced
WriteFile(files, name, content) ==
    [t \in (DOMAIN files) \cup {name} |-> IF t = name THEN content ELSE files[t]]

\* mutant of RawWrite: the snapshot is written only with a payload at hand
RawWrite_OnlyWithPayload ==
    /\ pc = "raw_write"
    /\ raw_files' = IF Truthy(result.extracted_content)
                    THEN WriteFile(raw_files, timestamp, RawContent)
                    ELSE raw_files
    /\ log' = IF Truthy(result.extracted_content)
              THEN Append(log, Event("raw_write", idx))
              ELSE log
    /\ pc' = "check_extracted"
    /\ UNCHANGED <<api_key, dirs, initial_result, article_urls, idx, result,
                   timestamp, processed_content, now, processed_files, history>>

\* lines 105-108
RawWrite ==
    /\ pc = "raw_write"
    /\ raw_files' = WriteFile(raw_files, timestamp, RawContent)
    /\ log' = Append(log, Event("raw_write", idx))
    /\ pc' = "check_extracted"
    /\ UNCHANGED <<api_key, dirs, initial_result, article_urls, idx, result,
                   timestamp, processed_content, now, processed_files, history>>

\* a failed raw write that is passed over: the body goes on to the payload
RawWriteRaises_Swallowed ==
    /\ pc = "raw_write"
    /\ log' = Append(log, Event("raw_write_raised", idx))
    /\ pc' = "check_extracted"
    /\ UNCHANGED <<api_key, dirs, initial_result, article_urls, idx, result,
                   timestamp, processed_content, now, raw_files, processed_files, history>>

\* lines 105-107 raise (OSError at open): to the handler of line 135
RawWriteRaises ==
    /\ pc = "raw_write"
    /\ log' = Append(log, Event("raw_write_raised", idx))
    /\ pc' = "except"
    /\ UNCHANGED <<api_key, dirs, initial_result, article_urls, idx, result,
                   timestamp, processed_content, now, raw_files, processed_files, history>>

\* mutant of ParseExtracted: no inner handler, a JSONDecodeError goes to
\* the handler of line 135
ParseExtracted_NoInnerHandler ==
    /\ pc = "check_extracted"
    /\ IF ~Truthy(result.extracted_content)
       THEN /\ pc' = "sleep"
            /\ log' = Append(log, Event("no_extracted", idx))
            /\ processed_content' = processed_content
       ELSE IF JsonDecodes(result.extracted_content.s)
            THEN /\ pc' = "update"
                 /\ log' = Append(log, Event("parsed", idx))
                 /\ processed_content' = json_loads(result.extracted_content.s)
            ELSE /\ pc' = "except"
                     /\ log' = Append(log, Event("decode_error", idx))
                     /\ processed_content' = processed_content
    /\ UNCHANGED <<api_key, dirs, initial_result, article_urls, idx, result,
                   timestamp, now, raw_files, processed_files, history>>

\* lines 111-113 and 126-128: nothing to do for an empty payload; a payload
\* that does not parse is reported by the inner handler
ParseExtracted ==
    /\ pc = "check_extracted"
    /\ IF ~Truthy(result.extracted_content)
       THEN /\ pc' = "sleep"
            /\ log' = Append(log, Event("no_extracted", idx))
            /\ processed_content' = processed_content
       ELSE IF JsonDecodes(result.extracted_content.s)
            THEN /\ pc' = "update"
                 /\ log' = Append(log, Event("parsed", idx))
                 /\ processed_content' = json_loads(result.extracted_content.s)
            ELSE /\ pc' = "sleep"
                     /\ log' = Append(log, Event("decode_error", idx))
                     /\ processed_content' = processed_content
    /\ UNCHANGED <<api_key, dirs, initial_result, article_urls, idx, result,
                   timestamp, now, raw_files, processed_files, history>>

\* lines 115-120: the argument of update
Overrides ==
    [k \in {"url", "crawl_date", "title", "date_published"} |->
        CASE k = "url" -> article_urls[idx]
          [] k = "crawl_date" -> timestamp
          [] k = "title" -> DictGet(result.metadata.d, "title", "")
          [] k = "date_published" -> DictGet(result.metadata.d, "date", "")]

\* lines 115-120 raise AttributeError when the parsed value has no update
\* (it is not a dict) or result.metadata has no get (it is None)
UpdateCanRun ==
    /\ processed_content.type = "dict"
    /\ result.metadata.type = "dict"

Update ==
    /\ pc = "update"
    /\ IF UpdateCanRun
       THEN /\ processed_content' = Dict(DictUpdate(processed_content.d, Overrides))
            /\ pc' = "processed_write"
            /\ log' = log
       ELSE /\ processed_content' = processed_content
            /\ pc' = "except"
            /\ log' = Append(log, Event("update_raised", idx))
    /\ UNCHANGED <<api_key, dirs, initial_result, article_urls, idx, result,
                   timestamp, now, raw_files, processed_files, history>>

\* lines 122-125
ProcessedWrite ==
    /\ pc = "processed_write"
    /\ processed_files' = WriteFile(processed_files, timestamp, processed_content.d)
    /\ log' = Append(log, Event("processed_write", idx))
    /\ pc' = "sleep"
    /\ UNCHANGED <<api_key, dirs, initial_result, article_urls, idx, result,
                   timestamp, processed_content, now, raw_files, history>>

\* lines 122-124 raise (OSError at open): to the handler of line 135
ProcessedWriteRaises ==
    /\ pc = "processed_write"
    /\ log' = Append(log, Event("processed_write_raised", idx))
    /\ pc' = "except"
    /\ UNCHANGED <<api_key, dirs, initial_result, article_urls, idx, result,
                   timestamp, processed_content, now, raw_files, processed_files, history>>

\* lines 130-133: the task sleeps 2 + random.random() seconds, so the
\* clock's second count moves by DelayMin at least; the least is taken,
\* which leaves the next timestamp as close to this one as the delay allows
Sleep ==
    /\ pc = "sleep"
    /\ now' = now + DelayMin
    /\ log' = Append(log, Event("sleep", idx))
    /\ pc' = "loop"
    /\ UNCHANGED <<api_key, dirs, initial_result, article_urls, idx, result,
                   timestamp, processed_content, raw_files, processed_files, history>>

\* mutant of Except: the handler raises the error again
Except_Reraises ==
    /\ pc = "except"
    /\ log' = Append(log, Event("except", idx))
    /\ pc' = "raised"
    /\ UNCHANGED <<api_key, dirs, initial_result, article_urls, idx, result,
                   timestamp, processed_content, now, raw_files, processed_files, history>>

\* lines 135-139: the error is printed and the loop continues
Except ==
    /\ pc = "except"
    /\ log' = Append(log, Event("except", idx))
    /\ pc' = "loop"
    /\ UNCHANGED <<api_key, dirs, initial_result, article_urls, idx, result,
                   timestamp, processed_content, now, raw_files, processed_files, history>>

Next ==
    \/ MainGuard
    \/ DirectCall
    \/ CheckKey
    \/ Mkdirs
    \/ MkdirsRaises
    \/ Discover
    \/ DiscoverRaises
    \/ CollectLinks
    \/ ForNext
    \/ Fetch
    \/ FetchRaises
    \/ CheckSuccess
    \/ RawWrite
    \/ RawWriteRaises
    \/ ParseExtracted
    \/ Update
    \/ ProcessedWrite
    \/ ProcessedWriteRaises
    \/ Sleep
    \/ Except

Spec == Init /\ [][Next]_vars

\* the program is one sequential task: a step that can be taken is taken
FairSpec == Spec /\ WF_vars(Next)

\* the run up to the for loop, over every form of href
NextDiscovery ==
    \/ MainGuard
    \/ DirectCall
    \/ CheckKey
    \/ Mkdirs
    \/ MkdirsRaises
    \/ DiscoverAnyHref
    \/ DiscoverRaises
    \/ CollectLinks

SpecDiscovery == Init /\ [][NextDiscovery]_vars

----------------------------------------------------------------------------
(* Vocabulary of the properties *)

Urls == 1..Len(article_urls)

\* iteration i took step ev
Has(ev, i) == \E k \in 1..Len(log) : log[k].ev = ev /\ log[k].i = i

Count(ev) == Cardinality({k \in 1..Len(log) : log[k].ev = ev})

\* crawler.arun was called for url i and what it did
Attempted(i) == i <= Len(history)
Fetched(i) == Attempted(i) /\ history[i].outcome = "ok"
FetchFailed(i) == Attempted(i) /\ history[i].outcome = "failed"

\* the capture timestamp of a fetched article, and its snapshot
TimestampOf(i) == history[i].at

RawContentOf(i) ==
    [url |-> article_urls[i],
     html |-> article_urls[i],
     markdown |-> article_urls[i],
     metadata |-> history[i].result.metadata,
     crawl_date |-> TimestampOf(i)]

\* the extraction payload the fetch of article i came back with
PayloadOf(i) == history[i].result.extracted_content
PayloadEmpty(i) == ~Truthy(PayloadOf(i))
PayloadParses(i) == Truthy(PayloadOf(i)) /\ JsonDecodes(PayloadOf(i).s)

\* the iteration of url i is over
Finished(i) == i < idx \/ (i = idx /\ pc \in {"loop", "completed"})

Aborted == pc \in {"raised", "exited_1"}

\* discovery has handed its list to the for loop (line 74)
ListFound == Has("found", 0)

----------------------------------------------------------------------------
(* C1: for every url whose fetch reports failure (success flag false), no
   raw file and no processed file is written for that url, the files on
   disk are those of the other urls, and the run is not aborted: the loop
   goes on, and at completion every url of the list has been attempted. *)
C1_FailedFetchWritesNothing ==
    \A i \in Urls :
        FetchFailed(i) =>
            /\ ~Has("raw_write", i)
            /\ ~Has("processed_write", i)
            /\ \A t \in DOMAIN raw_files :
                  \E j \in Urls \ {i} : Fetched(j) /\ TimestampOf(j) = t
            /\ ~Aborted
            /\ pc = "completed" => \A j \in Urls : Attempted(j)

\* a failed fetch was followed by a successful one that was persisted
C1_Witness ==
    /\ pc = "completed"
    /\ Len(article_urls) = 2
    /\ FetchFailed(1)
    /\ Fetched(2)
    /\ DOMAIN raw_files = {TimestampOf(2)}
    /\ DOMAIN processed_files = {TimestampOf(2)}

----------------------------------------------------------------------------
(* C2, as stated: for every article whose fetch succeeds, the file
   raw_<capture timestamp>.json exists once its iteration is over, whatever
   the extraction outcome. *)
C2_RawExistsForEveryFetched ==
    \A i \in Urls :
        Fetched(i) /\ Finished(i) => TimestampOf(i) \in DOMAIN raw_files

(* C2, amended: for every article whose fetch succeeds and whose raw write
   does not itself raise, the file raw_<capture timestamp>.json exists once
   its iteration is over and from then on, whatever the extraction outcome
   (payload empty, malformed, valid, or an error while the processed record
   is built or written). *)
C2_RawExistsUnlessWriteRaises ==
    \A i \in Urls :
        Fetched(i) /\ Finished(i) /\ ~Has("raw_write_raised", i) =>
            /\ Has("raw_write", i)
            /\ TimestampOf(i) \in DOMAIN raw_files
            /\ raw_files[TimestampOf(i)].crawl_date = TimestampOf(i)

\* one article ended in the error handler while its record was built, the
\* other with a payload that did not parse; both raw files are there
C2_Witness ==
    /\ pc = "completed"
    /\ Len(article_urls) = 2
    /\ Has("update_raised", 1)
    /\ Has("decode_error", 2)
    /\ DOMAIN raw_files = {TimestampOf(1), TimestampOf(2)}
    /\ TimestampOf(1) # TimestampOf(2)

----------------------------------------------------------------------------
(* C3, as stated: for every article whose fetch succeeds and whose
   extraction payload is non-empty and parses as valid JSON (an object as
   well as a list of objects), processed_<capture timestamp>.json exists
   once its iteration is over. *)
C3_ProcessedExistsForEveryParsed ==
    \A i \in Urls :
        Has("parsed", i) /\ Finished(i) => TimestampOf(i) \in DOMAIN processed_files

----------------------------------------------------------------------------
(* C4, as stated: if the extraction payload of a successfully fetched
   article is empty or does not parse, no processed file is written for it,
   its raw file is written and kept, and the run continues. *)
C4_RawKeptForEveryUnparsed ==
    \A i \in Urls :
        Fetched(i) /\ Finished(i) /\ (PayloadEmpty(i) \/ ~PayloadParses(i)) =>
            /\ ~Has("processed_write", i)
            /\ TimestampOf(i) \in DOMAIN raw_files
            /\ raw_files[TimestampOf(i)] = RawContentOf(i)
            /\ ~Aborted

(* C4, amended: if the extraction payload of a successfully fetched article
   whose raw write did not raise is empty or does not parse, no processed
   file is written for it, its raw file is written and still holds its
   snapshot at every later point of the run, and the run continues: it is
   not aborted and at completion every url has been attempted. *)
C4_RawKeptUnlessWriteRaises ==
    \A i \in Urls :
        /\ Fetched(i)
        /\ Finished(i)
        /\ ~Has("raw_write_raised", i)
        /\ (PayloadEmpty(i) \/ ~PayloadParses(i))
        => /\ ~Has("processed_write", i)
           /\ TimestampOf(i) \in DOMAIN raw_files
           /\ raw_files[TimestampOf(i)] = RawContentOf(i)
           /\ TimestampOf(i) \notin DOMAIN processed_files
           /\ ~Aborted
           /\ pc = "completed" => \A j \in Urls : Attempted(j)

\* the first article's payload did not parse, the second one's was empty;
\* the run completed with both raw files and no processed file
C4_Witness ==
    /\ pc = "completed"
    /\ Len(article_urls) = 2
    /\ Has("decode_error", 1)
    /\ Has("no_extracted", 2)
    /\ raw_files[TimestampOf(1)] = RawContentOf(1)
    /\ raw_files[TimestampOf(2)] = RawContentOf(2)
    /\ DOMAIN processed_files = {}

----------------------------------------------------------------------------
(* C5, as stated: after every url's iteration (success, reported fetch
   failure, or caught error) the driver performs the inter-article delay
   before the next url's fetch starts, so that no two consecutive fetches
   start without a delay between them. *)
C5_DelayBeforeEveryNextFetch ==
    \A i \in Urls : (i >= 2 /\ Has("fetch", i)) => Has("sleep", i - 1)

----------------------------------------------------------------------------
(* C6, as stated: within one run every raw file and every processed file is
   created once and never overwritten: each article whose raw (processed)
   write completed still finds its own snapshot (record) under its file
   name, and there are as many raw (processed) files as articles written. *)
C6_FilesNeverOverwritten ==
    /\ \A i \in Urls :
          Has("raw_write", i) =>
              /\ TimestampOf(i) \in DOMAIN raw_files
              /\ raw_files[TimestampOf(i)] = RawContentOf(i)
    /\ Cardinality(DOMAIN raw_files) = Count("raw_write")
    /\ Cardinality(DOMAIN processed_files) = Count("processed_write")

----------------------------------------------------------------------------
(* C7: once the credential is there and discovery has returned its list, no
   failure of a single article (fetch failure, fetch raising, malformed
   extraction, an error while the record is built, a file-write error)
   aborts the run: the urls are attempted one by one in list order, each
   exactly once, the run is never stuck before its completion point, and at
   the completion point every url of the list has been attempted. *)
C7_NoArticleFailureAborts ==
    ListFound =>
        /\ ~Aborted
        /\ pc = "completed" \/ ENABLED Next
        /\ LET fetches == SelectSeq(log, LAMBDA e : e.ev = "fetch")
           IN  /\ Len(fetches) = Len(history)
               /\ \A j \in 1..Len(fetches) : fetches[j].i = j
        /\ Len(history) <= Len(article_urls)
        /\ pc = "completed" => Len(history) = Len(article_urls)

\* a run that completed after a fetch that raised and a file-write error
C7_Witness ==
    /\ pc = "completed"
    /\ Len(article_urls) = 2
    /\ history[1].outcome = "raised"
    /\ Has("processed_write_raised", 2)
    /\ Count("except") = 2

----------------------------------------------------------------------------
(* C8: if the credential is missing at startup, the run ends with exit
   status 1 (script) or with the ValueError (coroutine called directly),
   and up to there no directory has been created and no request (index
   page, article, extraction) has been made. *)
C8_MissingKeyStopsBeforeAnyWork ==
    api_key = "" =>
        /\ log = <<>>
        /\ history = <<>>
        /\ initial_result = NoInitialResult
        /\ pc \in {"start", "crawl", "exited_1", "raised"}
        /\ Aborted \/ ENABLED Next

\* the coroutine was called without the key and raised
C8_Witness ==
    /\ api_key = ""
    /\ pc = "raised"
    /\ dirs = {}

----------------------------------------------------------------------------
(* C9, as stated: if the index page cannot be fetched (the request raises,
   or its result reports failure), the run aborts: no article is fetched,
   no file is written, and the completion point is not reached. *)
C9_FailedDiscoveryAborts ==
    (Has("discover_raised", 0) \/ (Has("discover", 0) /\ ~initial_result.success)) =>
        /\ history = <<>>
        /\ raw_files = NoFiles
        /\ processed_files = NoFiles
        /\ pc # "completed"

----------------------------------------------------------------------------
(* C10: in every processed file, url is the article's source url,
   crawl_date is the capture timestamp under which the article's raw file
   was written, title and date_published are result.metadata's "title" and
   "date" ("" where the metadata has none), whatever the payload said, and
   every other member of the parsed payload is there unchanged. *)
C10_ProcessedRecordFields ==
    \A t \in DOMAIN processed_files :
        \E i \in Urls :
            LET rec == processed_files[t]
                meta == history[i].result.metadata
                parsed == json_loads(PayloadOf(i).s)
                set == {"url", "crawl_date", "title", "date_published"}
            IN  /\ Has("processed_write", i)
                /\ TimestampOf(i) = t
                /\ DOMAIN rec = (DOMAIN parsed.d) \cup set
                /\ rec["title"] = DictGet(meta.d, "title", "")
                /\ rec["date_published"] = DictGet(meta.d, "date", "")
                /\ rec["url"] = article_urls[i]
                /\ rec["crawl_date"] = t
                /\ t \in DOMAIN raw_files
                /\ raw_files[t].crawl_date = rec["crawl_date"]
                /\ raw_files[t].url = rec["url"]
                /\ \A k \in (DOMAIN parsed.d) \ set : rec[k] = parsed.d[k]

\* a record whose payload carried its own title, and whose metadata had none
C10_Witness ==
    \E t \in DOMAIN processed_files :
        /\ processed_files[t]["title"] = ""
        /\ processed_files[t]["summary"] = "S"
        /\ \E t2 \in DOMAIN processed_files : processed_files[t2]["title"] = "T_meta"

----------------------------------------------------------------------------
(* What a resolved url is expected to look like *)

\* tokens a path can start with
PathStarts == {"/posts/", "/general/", "/about", "/"}

\* an absolute url of the site: the origin, then nothing, a path or a query
UnderBaseOrigin(url) ==
    /\ Len(url) >= Len(BaseUrl)
    /\ SubSeq(url, 1, Len(BaseUrl)) = BaseUrl
    /\ \/ Len(url) = Len(BaseUrl)
       \/ url[Len(BaseUrl) + 1] \in PathStarts \cup {"?"}

\* one of the two sections occurs after the origin and before any query
SectionInPath(url) ==
    \E i \in (Len(BaseUrl) + 1)..Len(url) :
        /\ url[i] \in {"/posts/", "/general/"}
        /\ \A j \in 1..i : url[j] # "?"

----------------------------------------------------------------------------
(* C11, as stated: every url produced by link discovery has '/posts/' or
   '/general/' in its path and is an absolute url under the site's base
   origin, for every form of href (absolute, root-relative, other relative
   forms). *)
C11_DiscoveredUrlsAreSiteArticleUrls ==
    \A k \in 1..Len(article_urls) :
        /\ UnderBaseOrigin(article_urls[k])
        /\ SectionInPath(article_urls[k])

----------------------------------------------------------------------------
(* C12: link discovery yields exactly the internal links of the index page
   whose href contains one of the two section substrings: a link matching
   neither is left out, none that matches is dropped, the order of the page
   is kept and a href occurring twice yields two entries; the for loop then
   takes every entry by itself, so such an article is fetched twice and, when
   fetched, written twice. *)

\* the links of the index page that match, in the order of the page and
\* as often as they occur
MatchingLinks == SelectSeq(initial_result.links, Matches)

C12_DiscoveryYieldsExactlyTheMatchingLinks ==
    ListFound =>
        /\ Len(article_urls) = Len(MatchingLinks)
        /\ \A k \in Urls : article_urls[k] = FullUrl(MatchingLinks[k])
        /\ pc = "completed" =>
               \A k \in Urls :
                   /\ Attempted(k)
                   /\ Fetched(k) => Has("raw_write", k) \/ Has("raw_write_raised", k)

\* the same href twice on the page: two entries, two fetches, two raw files
C12_Witness ==
    /\ pc = "completed"
    /\ Len(initial_result.links) = MaxLinks
    /\ initial_result.links[1] = initial_result.links[2]
    /\ Len(article_urls) = 2
    /\ article_urls[1] = article_urls[2]
    /\ Fetched(1) /\ Has("raw_write", 1)
    /\ Fetched(2) /\ Has("raw_write", 2)
    /\ Cardinality(DOMAIN raw_files) = 2

----------------------------------------------------------------------------
(* C13: both output directories (raw and processed) exist before the first
   file write is attempted and before the first network request of the run;
   their creation succeeds also when they exist from an earlier run: it
   raises only when one of them is missing and cannot be made. *)

OutputDirs == {"raw", "processed"}

\* the steps that request a page or write a file
NetworkOrWriteEvents ==
    {"discover", "discover_raised", "found", "fetch", "skip", "raw_write",
     "raw_write_raised", "processed_write", "processed_write_raised"}

C13_DirectoriesExistBeforeAnyRequestOrWrite ==
    /\ pc = "discover" => OutputDirs \subseteq dirs
    /\ (\E k \in 1..Len(log) : log[k].ev \in NetworkOrWriteEvents) =>
           OutputDirs \subseteq dirs
    /\ Len(history) > 0 => OutputDirs \subseteq dirs
    /\ (raw_files # NoFiles \/ processed_files # NoFiles) => OutputDirs \subseteq dirs
    /\ Has("mkdirs_raised", 0) => ~(OutputDirs \subseteq dirs)

\* the directories are there, the index page was requested and both files
\* of an article were written
C13_Witness ==
    /\ Has("mkdirs", 0)
    /\ Has("discover", 0)
    /\ Has("raw_write", 1)
    /\ Has("processed_write", 1)
    /\ OutputDirs \subseteq dirs

----------------------------------------------------------------------------
(* C14: at most one article is in flight at any time: the fetch of url i+1
   never starts before every step of url i (fetch, raw write, processed
   write or its failure handling) has finished, and within one article the
   steps happen in the order fetch, raw write, extraction parse, processed
   write. *)

\* the steps that end an iteration: continue after a reported failure, the
\* delay at the end of the body, the handler of line 135
EndEvents == {"skip", "sleep", "except"}

\* the steps that can come right before a step of the same iteration: the
\* fetch is the first; the raw write follows the fetch, the parse the raw
\* write, the update and the processed write the parse; the delay follows
\* the end of the body, the handler a step that raised
StepBefore(ev) ==
    CASE ev \in {"raw_write", "raw_write_raised", "skip"} -> {"fetch"}
      [] ev \in {"no_extracted", "parsed", "decode_error"} -> {"raw_write"}
      [] ev \in {"update_raised", "processed_write", "processed_write_raised"} ->
             {"parsed"}
      [] ev = "sleep" -> {"no_extracted", "decode_error", "processed_write"}
      [] ev = "except" -> {"fetch", "raw_write_raised", "update_raised",
                           "processed_write_raised"}
      [] OTHER -> {}

\* the iteration of url i has ended
Ended(i) == \E k \in 1..Len(log) : log[k].i = i /\ log[k].ev \in EndEvents

C14_OneArticleInFlightStepsInOrder ==
    /\ \A i \in Urls : i < idx => Ended(i)
    /\ \A k \in 1..Len(log) : log[k].i <= idx
    /\ \A k \in 1..(Len(log) - 1) :
           LET a == log[k]
               b == log[k + 1]
           IN  b.i >= 1 =>
                   IF a.i = b.i
                   THEN a.ev \in StepBefore(b.ev)
                   ELSE /\ b.i = a.i + 1
                        /\ b.ev = "fetch"
                        /\ a.i >= 1 => a.ev \in EndEvents

\* two articles, each going through all four steps, one after the other
C14_Witness ==
    /\ pc = "completed"
    /\ Len(article_urls) = 2
    /\ \A i \in 1..2 :
           /\ Has("fetch", i)
           /\ Has("raw_write", i)
           /\ Has("parsed", i)
           /\ Has("processed_write", i)
           /\ Has("sleep", i)

----------------------------------------------------------------------------
(* C15: in every reachable state, so also when the run is interrupted at an
   arbitrary point, each processed file has a raw file with the same
   timestamp suffix that was written earlier for the same article: a
   processed record never exists without its raw snapshot, and the number of
   processed files never exceeds the number of raw files. *)

\* iteration i wrote its raw file and, later, its processed file
RawThenProcessed(i) ==
    \E k \in 1..Len(log) :
        /\ log[k].ev = "raw_write" /\ log[k].i = i
        /\ \E n \in (k + 1)..Len(log) :
               log[n].ev = "processed_write" /\ log[n].i = i

C15_ProcessedFileHasItsRawFile ==
    /\ \A t \in DOMAIN processed_files :
           /\ t \in DOMAIN raw_files
           /\ raw_files[t].crawl_date = processed_files[t]["crawl_date"]
           /\ raw_files[t].url = processed_files[t]["url"]
           /\ \E i \in Urls :
                  /\ Fetched(i)
                  /\ TimestampOf(i) = t
                  /\ raw_files[t] = RawContentOf(i)
                  /\ RawThenProcessed(i)
    /\ Cardinality(DOMAIN processed_files) <= Cardinality(DOMAIN raw_files)
    /\ Count("processed_write") <= Count("raw_write")

\* the run stands in the middle of the second article: two raw files, one
\* processed file, that of the first
C15_Witness ==
    /\ pc = "check_extracted"
    /\ idx = 2
    /\ Has("processed_write", 1)
    /\ Cardinality(DOMAIN raw_files) = 2
    /\ Cardinality(DOMAIN processed_files) = 1
    /\ TimestampOf(1) \in DOMAIN processed_files

====
